---- MODULE Spec2Model ----
(***************************************************************************)
(* Trend Scout: the get-trends entrypoint (src/generate-wallet.js) and the *)
(* scout / deep-scout routes (src/src/index.ts), one request at a time.    *)
(* Requests share no state, so one request in flight shows every           *)
(* behaviour of a handler; the fetches of one request settle in any order. *)
(***************************************************************************)
EXTENDS Integers, Sequences, FiniteSets

\* ------------------------------------------------------------------ bounds
\* Most entries the upstream APIs answer one request with, all listings together.
MaxItems == 3
\* Longest `sources` array a caller sends.
MaxSrcLen == 2
\* Largest small whole part of a caller's `limit` (MaxLimit is always tried).
LimitBound == 2

\* ------------------------------------------------------- program constants
MinLimit == 1
MaxLimit == 50
DefaultLimit == 10
\* slice(0, 10) of the Hacker News ids and of the Lobsters listing
TopCount == 10
ScoutCount == 5
DeepScoutCount == 15

\* --------------------------------------------------------------- helpers
Min(a, b) == IF a <= b THEN a ELSE b

Range(s) == {s[i] : i \in 1..Len(s)}

\* Array.prototype.includes
Includes(arr, x) == \E i \in 1..Len(arr) : arr[i] = x

SeqsUpTo(S, n) == UNION {[1..k -> S] : k \in 0..n}

\* ------------------------------------------------------------- TrendItem
\* An optional JSON value: present (Some) or missing (None).
None == <<>>
Some(v) == <<v>>

\* A missing `score` (undefined in the upstream JSON).
NoScore == None

Scores == {NoScore, Some(-1), Some(1)}

\* title and url are stood for by `id`, the item's place in the upstream list.
TrendItem(src, sc, i) == [source |-> src, score |-> sc, id |-> i]

\* b.score || 0
EffScore(it) == IF it.score = NoScore THEN 0 ELSE it.score[1]

\* ------------------------------------------------- upstream HTTP responses
\* kind "ok": 2xx with the expected body, `scores` the listing's scores;
\* "notok": a non-2xx status; "neterr": fetch() rejects;
\* "badbody": 2xx whose body does not parse or lacks the expected shape.
ListingResponses(room) ==
    {[kind |-> "ok", scores |-> s] : s \in SeqsUpTo(Scores, room)}
    \cup {[kind |-> k, scores |-> <<>>] : k \in {"notok", "neterr", "badbody"}}

\* One /v0/item/<id>.json answer: a story with a score, a non-2xx status with a
\* JSON object body ("errjson"), a 200 whose body is null ("null", a deleted
\* item), or a failed request / unparsable body ("neterr").
ItemResponses ==
    {[kind |-> "story", score |-> sc] : sc \in Scores}
    \cup {[kind |-> k, score |-> NoScore] : k \in {"errjson", "null", "neterr"}}

HNResponses(room) ==
    {[kind |-> "ok", items |-> s] : s \in SeqsUpTo(ItemResponses, room)}
    \cup {[kind |-> k, items |-> <<>>] : k \in {"notok", "neterr", "badbody"}}

\* What the caller of a fetch function gets: a fulfilled promise with a value
\* (no path of the three functions rejects).  `http` records what happened upstream: "ok", "notok"
\* (some response had a non-success status) or "threw" (something threw).
Fulfilled(v, h) == [state |-> "fulfilled", value |-> v, http |-> h]

\* try { ... } catch { return []; } of the three fetch functions
CatchReturnsEmpty(h) == Fulfilled(<<>>, h)

fetchRedditTrends(resp) ==
    IF resp.kind = "ok"
    THEN Fulfilled([i \in 1..Len(resp.scores) |->
                        TrendItem("reddit", resp.scores[i], i)], "ok")
    ELSE IF resp.kind = "notok"
    THEN Fulfilled(<<>>, "notok")
    ELSE CatchReturnsEmpty("threw")

fetchLobstersTrends(resp) ==
    IF resp.kind = "ok"
    THEN LET n == Min(Len(resp.scores), TopCount)
         IN  Fulfilled([i \in 1..n |->
                            TrendItem("lobsters", resp.scores[i], i)], "ok")
    ELSE IF resp.kind = "notok"
    THEN Fulfilled(<<>>, "notok")
    ELSE CatchReturnsEmpty("threw")

\* storyRes.ok is never looked at: an item answered with an error status and a
\* JSON object body becomes a story without title or score.
StoryScore(r) == r.score

fetchHNTrends(resp) ==
    IF resp.kind = "ok"
    THEN LET n == Min(Len(resp.items), TopCount)
             top == SubSeq(resp.items, 1, n)
         IN  IF \E i \in 1..n : top[i].kind \in {"null", "neterr"}
             THEN CatchReturnsEmpty("threw")
             ELSE Fulfilled([i \in 1..n |->
                                TrendItem("hackernews", StoryScore(top[i]), i)],
                            IF \E i \in 1..n : top[i].kind = "errjson"
                            THEN "notok" ELSE "ok")
    ELSE IF resp.kind = "notok"
    THEN Fulfilled(<<>>, "notok")
    ELSE CatchReturnsEmpty("threw")

Responses(src, room) ==
    IF src = "hackernews" THEN HNResponses(room) ELSE ListingResponses(room)

FetchTrends(src, resp) ==
    CASE src = "reddit" -> fetchRedditTrends(resp)
      [] src = "hackernews" -> fetchHNTrends(resp)
      [] src = "lobsters" -> fetchLobstersTrends(resp)

\* ------------------------------------------------------ trendsInputSchema
KnownSources == <<"reddit", "hackernews", "lobsters">>
SourceTags == {"reddit", "hackernews", "lobsters", "all"}
RawTags == SourceTags \cup {"twitter"}

\* A JSON number: `whole` plus, when `frac`, a fraction strictly between 0 and 1.
Num(w, f) == [whole |-> w, frac |-> f]
RawLimits ==
    {Num(w, f) : w \in (0..LimitBound) \cup {MaxLimit, MaxLimit + 1},
                 f \in BOOLEAN}

RawSourceLists == {None} \cup {Some(l) : l \in SeqsUpTo(RawTags, MaxSrcLen)}
RawLimitInputs == {None} \cup {Some(l) : l \in RawLimits}

\* z.number().min(1).max(50): any number in [1, 50], whole or not
LimitOk(l) ==
    /\ l.whole >= MinLimit
    /\ l.whole < MaxLimit \/ (l.whole = MaxLimit /\ ~l.frac)

\* z.array(z.enum([...]))
SourcesOk(srcs) == \A i \in 1..Len(srcs) : srcs[i] \in SourceTags

\* .optional().default(...)
SourcesOrDefault(raw) == IF raw = None THEN <<"all">> ELSE raw[1]
LimitOrDefault(raw) == IF raw = None THEN Num(DefaultLimit, FALSE) ELSE raw[1]

TrendsInputOk(rawSources, rawLimit) ==
    /\ SourcesOk(SourcesOrDefault(rawSources))
    /\ LimitOk(LimitOrDefault(rawLimit))

\* ----------------------------------------------------- get-trends handler
\* input.sources.includes("all") ? ["reddit","hackernews","lobsters"] : input.sources
ExpandSources(srcs) == IF Includes(srcs, "all") THEN KnownSources ELSE srcs

\* Mutant: one fetch for each entry of the list, repeated tags included.
LaunchedPerEntry(requested) == requested

\* The three `if (requestedSources.includes(..)) fetchPromises.push(..)`.
LaunchedSources(requested) ==
    SelectSeq(KnownSources, LAMBDA s : Includes(requested, s))

Pending(src) == [src |-> src, state |-> "pending", value |-> <<>>, http |-> "none"]

\* Mutant: Promise.race, which settles with the first promise that does.
PromiseRaceSettled(ps) == \E i \in 1..Len(ps) : ps[i].state # "pending"

\* Promise.all: settles once every promise is fulfilled, or as soon as one rejects.
PromiseAllSettled(ps) ==
    \/ \A i \in 1..Len(ps) : ps[i].state = "fulfilled"
    \/ \E i \in 1..Len(ps) : ps[i].state = "rejected"

PromiseAllRejects(ps) == \E i \in 1..Len(ps) : ps[i].state = "rejected"

RECURSIVE Concat(_)
\* results.forEach(trends => allTrends.push(...trends))
Concat(ps) ==
    IF ps = <<>> THEN <<>> ELSE ps[1].value \o Concat(Tail(ps))

\* Mutant: the operands the other way round, an ascending sort.
CompareAscending(a, b) == EffScore(a) - EffScore(b)

\* (a, b) => (b.score || 0) - (a.score || 0)
Compare(a, b) == EffScore(b) - EffScore(a)

RECURSIVE InsertSorted(_, _)
\* x goes behind every element it does not sort strictly before.
InsertSorted(sorted, x) ==
    IF sorted = <<>> THEN <<x>>
    ELSE IF Compare(sorted[1], x) <= 0
         THEN <<sorted[1]>> \o InsertSorted(Tail(sorted), x)
         ELSE <<x>> \o sorted

RECURSIVE SortFrom(_, _)
SortFrom(acc, rest) ==
    IF rest = <<>> THEN acc
    ELSE SortFrom(InsertSorted(acc, rest[1]), Tail(rest))

\* Array.prototype.sort with Compare: a stable sort.
Sort(items) == SortFrom(<<>>, items)

\* Mutant: a fractional end rounded up.
SliceRoundsUp(items, end) ==
    SubSeq(items, 1, Min(Len(items), end.whole + (IF end.frac THEN 1 ELSE 0)))

\* Array.prototype.slice(0, end): end is truncated to an integer.
Slice(items, end) == SubSeq(items, 1, Min(Len(items), end.whole))

NoResponse == [trends |-> <<>>, sources |-> <<>>]

\* ------------------------------------------- scout / deep-scout (index.ts)
ScoutTags == {"hackernews", "reddit"}

\* ScoutInputSchema: declared, and used by neither route.
ScoutInputSchema(srcs) == \A i \in 1..Len(srcs) : srcs[i] \in ScoutTags

\* input.sources || ['hackernews', 'reddit']  (an empty array is truthy)
ScoutSourcesOrDefault(raw) ==
    IF raw = None THEN <<"hackernews", "reddit">> ELSE raw[1]

\* An entry of trends.<source>: a story, or the handler's error placeholder.
Story == "story"
ErrorEntry == "Failed to fetch"

Returned(v, h) == [state |-> "returned", value |-> v, http |-> h]
Thrown(h) == [state |-> "thrown", value |-> <<>>, http |-> h]

ItemKinds == {"story", "errjson", "null", "neterr"}

ScoutHNResponses(room) ==
    {[kind |-> "ok", items |-> s] : s \in SeqsUpTo(ItemKinds, room)}
    \cup {[kind |-> k, items |-> <<>>] : k \in {"notok", "neterr", "badbody"}}

\* "notok": a non-2xx status with a JSON body; "notokhtml": one whose body
\* does not parse.
ScoutRedditResponses(room) ==
    {[kind |-> "ok", count |-> n] : n \in 0..room}
    \cup {[kind |-> k, count |-> 0] :
             k \in {"notok", "notokhtml", "neterr", "badbody"}}

\* Neither res.ok nor r.ok is looked at: an error body has no slice().
fetchHackerNews(count, resp) ==
    IF resp.kind = "ok"
    THEN LET n == Min(Len(resp.items), count)
             top == SubSeq(resp.items, 1, n)
         IN  IF \E i \in 1..n : top[i] \in {"null", "neterr"}
             THEN Thrown("threw")
             ELSE Returned([i \in 1..n |-> Story],
                           IF \E i \in 1..n : top[i] = "errjson"
                           THEN "notok" ELSE "ok")
    ELSE IF resp.kind = "notok" THEN Thrown("notok")
    ELSE Thrown("threw")

\* data.data?.children?.map(...) || []
fetchReddit(resp) ==
    IF resp.kind = "ok" THEN Returned([i \in 1..resp.count |-> Story], "ok")
    ELSE IF resp.kind = "notok" THEN Returned(<<>>, "notok")
    ELSE IF resp.kind = "notokhtml" THEN Thrown("notok")
    ELSE Thrown("threw")

\* fetchHackerNews(5) / fetchHackerNews(15)
FetchCount(entrypoint) ==
    IF entrypoint = "deep-scout" THEN DeepScoutCount ELSE ScoutCount

\* try { trends.x = await fetchX(..) } catch { trends.x = [{ error: .. }] }
TryAssign(r) == IF r.state = "returned" THEN r.value ELSE <<ErrorEntry>>

\* trends.x?.length || 0
LengthOrZero(t) == IF t = None THEN 0 ELSE Len(t[1])

NoTrends == [hackernews |-> None, reddit |-> None]
NotStarted == [state |-> "notstarted", http |-> "none"]
NoFetches == [hackernews |-> NotStarted, reddit |-> NotStarted]
NoOutput == [sources |-> <<>>, trends |-> NoTrends, totalItems |-> None]

\* The c.json({... output: {...}}) of the two routes
ScoutOutput(entrypoint, srcs, t) ==
    [sources |-> srcs,
     trends |-> t,
     totalItems |-> IF entrypoint = "deep-scout"
                    THEN Some(LengthOrZero(t.hackernews) + LengthOrZero(t.reddit))
                    ELSE None]

VARIABLES
    op,                \* the entrypoint of the request in hand, or "idle"
    status,            \* "none", "running", "succeeded", "rejected", "failed"
    requestedSources,  \* get-trends: requestedSources
    limit,             \* get-trends: input.limit
    fetchPromises,     \* get-trends: fetchPromises, with each promise's state
    successSources,    \* get-trends: successSources
    response,          \* get-trends: the TrendResponse (without its timestamp)
    sources,           \* scout: sources
    trends,            \* scout: trends
    scoutFetch,        \* scout: each source's fetch, how far it is
    output             \* scout: the output sent (without query and scoutedAt)

trendsVars == <<requestedSources, limit, fetchPromises, successSources, response>>
scoutVars == <<sources, trends, scoutFetch, output>>
vars == <<op, status, trendsVars, scoutVars>>

InitTrends ==
    /\ requestedSources = <<>>
    /\ limit = Num(DefaultLimit, FALSE)
    /\ fetchPromises = <<>>
    /\ successSources = <<>>
    /\ response = NoResponse

InitScout ==
    /\ sources = <<>>
    /\ trends = NoTrends
    /\ scoutFetch = NoFetches
    /\ output = NoOutput

Init ==
    /\ op = "idle"
    /\ status = "none"
    /\ InitTrends
    /\ InitScout

\* The framework parses ctx.input with trendsInputSchema before the handler runs.
GetTrendsRejected ==
    /\ op = "idle"
    /\ \E rs \in RawSourceLists, rl \in RawLimitInputs : ~TrendsInputOk(rs, rl)
    /\ op' = "get-trends"
    /\ status' = "rejected"
    /\ UNCHANGED <<trendsVars, scoutVars>>

\* The handler up to `await Promise.all(fetchPromises)`: every fetch is started.
GetTrendsInvoke ==
    /\ op = "idle"
    /\ \E rs \in RawSourceLists, rl \in RawLimitInputs :
          /\ TrendsInputOk(rs, rl)
          /\ requestedSources' = ExpandSources(SourcesOrDefault(rs))
          /\ limit' = LimitOrDefault(rl)
    /\ op' = "get-trends"
    /\ status' = "running"
    /\ fetchPromises' =
          LET ls == LaunchedSources(requestedSources')
          IN  [i \in 1..Len(ls) |-> Pending(ls[i])]
    /\ successSources' = <<>>
    /\ response' = NoResponse
    /\ UNCHANGED scoutVars

\* One fetch function returns, and its .then callback runs.
FetchSettles ==
    /\ op = "get-trends"
    /\ status = "running"
    /\ \E i \in 1..Len(fetchPromises) :
          /\ fetchPromises[i].state = "pending"
          /\ \E resp \in Responses(fetchPromises[i].src,
                                    MaxItems - Len(Concat(fetchPromises))) :
                LET p == FetchTrends(fetchPromises[i].src, resp)
                IN  /\ fetchPromises' =
                          [fetchPromises EXCEPT ![i] =
                              [src |-> fetchPromises[i].src, state |-> p.state,
                               value |-> p.value, http |-> p.http]]
                    /\ successSources' =
                          IF p.state = "fulfilled" /\ Len(p.value) > 0
                          THEN Append(successSources, fetchPromises[i].src)
                          ELSE successSources
    /\ UNCHANGED <<op, status, requestedSources, limit, response, scoutVars>>

\* The rest of the handler, once Promise.all settles.
GetTrendsRespond ==
    /\ op = "get-trends"
    /\ status = "running"
    /\ PromiseAllSettled(fetchPromises)
    /\ IF PromiseAllRejects(fetchPromises)
       THEN /\ status' = "failed"
            /\ response' = NoResponse
       ELSE /\ status' = "succeeded"
            /\ response' = [trends |-> Slice(Sort(Concat(fetchPromises)), limit),
                            sources |-> successSources]
    /\ UNCHANGED <<op, requestedSources, limit, fetchPromises, successSources,
                   scoutVars>>

\* The handler from the given source's `if` on, up to its next await or to
\* its c.json(..): `t` is trends and `f` the fetches so far.
ScoutRunFrom(src, t, f) ==
    IF src = "hackernews" /\ Includes(sources', "hackernews")
    THEN /\ scoutFetch' = [f EXCEPT !.hackernews.state = "pending"]
         /\ trends' = t
         /\ status' = "running"
         /\ output' = NoOutput
    ELSE IF Includes(sources', "reddit") /\ f.reddit.state = "notstarted"
    THEN /\ scoutFetch' = [f EXCEPT !.reddit.state = "pending"]
         /\ trends' = t
         /\ status' = "running"
         /\ output' = NoOutput
    ELSE /\ scoutFetch' = f
         /\ trends' = t
         /\ status' = "succeeded"
         /\ output' = ScoutOutput(op', sources', t)

\* app.post('/entrypoints/scout/invoke') and .../deep-scout/invoke, up to the
\* first await of a fetch.  The body is used as it comes: nothing parses it.
ScoutInvoke ==
    /\ op = "idle"
    /\ \E entrypoint \in {"scout", "deep-scout"}, rs \in RawSourceLists :
          /\ op' = entrypoint
          /\ sources' = ScoutSourcesOrDefault(rs)
    /\ ScoutRunFrom("hackernews", NoTrends, NoFetches)
    /\ UNCHANGED trendsVars

\* await fetchHackerNews(..) returns or throws; the handler goes on.
ScoutHNSettles ==
    /\ op \in {"scout", "deep-scout"}
    /\ scoutFetch.hackernews.state = "pending"
    /\ UNCHANGED <<op, sources, trendsVars>>
    /\ \E resp \in ScoutHNResponses(MaxItems) :
          LET r == fetchHackerNews(FetchCount(op), resp)
          IN  ScoutRunFrom("reddit",
                  [trends EXCEPT !.hackernews = Some(TryAssign(r))],
                  [scoutFetch EXCEPT !.hackernews =
                      [state |-> "settled", http |-> r.http]])

\* await fetchReddit(..) returns or throws; the handler answers.
ScoutRedditSettles ==
    /\ op \in {"scout", "deep-scout"}
    /\ scoutFetch.reddit.state = "pending"
    /\ UNCHANGED <<op, sources, trendsVars>>
    /\ \E resp \in ScoutRedditResponses(MaxItems - LengthOrZero(trends.hackernews)) :
          LET r == fetchReddit(resp)
          IN  ScoutRunFrom("done",
                  [trends EXCEPT !.reddit = Some(TryAssign(r))],
                  [scoutFetch EXCEPT !.reddit =
                      [state |-> "settled", http |-> r.http]])

\* The request's data is dropped; the server takes the next request.
Finish ==
    /\ op # "idle"
    /\ status \in {"succeeded", "rejected", "failed"}
    /\ op' = "idle"
    /\ status' = "none"
    /\ requestedSources' = <<>>
    /\ limit' = Num(DefaultLimit, FALSE)
    /\ fetchPromises' = <<>>
    /\ successSources' = <<>>
    /\ response' = NoResponse
    /\ sources' = <<>>
    /\ trends' = NoTrends
    /\ scoutFetch' = NoFetches
    /\ output' = NoOutput

Next ==
    \/ GetTrendsRejected
    \/ GetTrendsInvoke
    \/ FetchSettles
    \/ GetTrendsRespond
    \/ ScoutInvoke
    \/ ScoutHNSettles
    \/ ScoutRedditSettles
    \/ Finish

Spec == Init /\ [][Next]_vars

\* ---------------------------------------------------------------- claims
TrendsDone == op = "get-trends" /\ status = "succeeded"
ScoutDone == op \in {"scout", "deep-scout"} /\ status = "succeeded"

\* What the fetches of the request returned, in the order they were started.
Fetched == Concat(fetchPromises)

\* A score as the claims rank it: a missing score counts as 0.
ScoreOrZero(it) == IF it.score = None THEN 0 ELSE it.score[1]

\* The place of an item in a sequence that holds it once.
PlaceIn(seq, it) == CHOOSE k \in 1..Len(seq) : seq[k] = it

NoRepeats(seq) == \A i, j \in 1..Len(seq) : seq[i] = seq[j] => i = j

\* C1: a get-trends result holds at most `limit` trends, whatever the query
\* and whatever each source's fetch came to.
TrendsWithinLimit ==
    TrendsDone => Len(response.trends) <= limit.whole

\* C1 witness: more items were fetched than the limit lets through.
TrendsCutAtLimit ==
    /\ TrendsDone
    /\ Len(Fetched) > limit.whole
    /\ Len(response.trends) = limit.whole

\* C2: trends is in descending order of score, a missing score counting as 0,
\* and items of equal score keep the order they were fetched in.
TrendsSortedStable ==
    TrendsDone =>
        \A i, j \in 1..Len(response.trends) :
            i < j =>
                /\ ScoreOrZero(response.trends[i]) >= ScoreOrZero(response.trends[j])
                /\ ScoreOrZero(response.trends[i]) = ScoreOrZero(response.trends[j])
                     => PlaceIn(Fetched, response.trends[i])
                            < PlaceIn(Fetched, response.trends[j])

\* C2 witness: the result holds a tie between two sources, an item without a
\* score ahead of a negative one, and an item that was fetched after one it
\* now precedes.
TrendsReordered ==
    /\ TrendsDone
    /\ \E i, j \in 1..Len(response.trends) :
          /\ i < j
          /\ response.trends[i].score = response.trends[j].score
          /\ response.trends[i].source # response.trends[j].source
    /\ \E i, j \in 1..Len(response.trends) :
          /\ i < j
          /\ response.trends[i].score = None
          /\ ScoreOrZero(response.trends[j]) < 0
    /\ \E i, j \in 1..Len(response.trends) :
          /\ i < j
          /\ PlaceIn(Fetched, response.trends[i]) > PlaceIn(Fetched, response.trends[j])

\* C3 as claimed: a source whose fetch threw or met a non-success status gives
\* no item and is not in result.sources, and the call still succeeds.
FailedSourceContributesNothing ==
    /\ status # "failed"
    /\ TrendsDone =>
          \A i \in 1..Len(fetchPromises) :
              fetchPromises[i].http \in {"notok", "threw"} =>
                  /\ fetchPromises[i].value = <<>>
                  /\ ~Includes(response.sources, fetchPromises[i].src)
                  /\ \A k \in 1..Len(response.trends) :
                        response.trends[k].source # fetchPromises[i].src

\* What does hold of C3: a fetch that threw, and a Reddit or Lobsters fetch
\* that met a non-success status, gives no item and no entry in sources; the
\* call never fails.
ThrowingSourceContributesNothing ==
    /\ status # "failed"
    /\ TrendsDone =>
          \A i \in 1..Len(fetchPromises) :
              /\ fetchPromises[i].http \in {"notok", "threw"}
              /\ fetchPromises[i].src # "hackernews" \/ fetchPromises[i].http = "threw"
              => /\ fetchPromises[i].value = <<>>
                 /\ ~Includes(response.sources, fetchPromises[i].src)
                 /\ \A k \in 1..Len(response.trends) :
                       response.trends[k].source # fetchPromises[i].src

\* C4: every trend's source tag is a requested one, and result.sources lists
\* requested tags only, each at most once.
SourcesWithinRequested ==
    TrendsDone =>
        /\ \A k \in 1..Len(response.trends) :
              response.trends[k].source \in Range(requestedSources)
        /\ Range(response.sources) \subseteq Range(requestedSources)
        /\ NoRepeats(response.sources)

\* C4 witness: a tag was requested twice and its source returned items.
RepeatedTagAnswered ==
    /\ TrendsDone
    /\ ~NoRepeats(requestedSources)
    /\ response.sources # <<>>
    /\ response.trends # <<>>

\* C5 as claimed: the order the fetches settle in does not show in the
\* result; that is, trends and sources are what they are when the fetches
\* settle in the order they were started.
SourcesInLaunchOrder ==
    TrendsDone =>
        /\ response.trends = Slice(Sort(Fetched), limit)
        /\ response.sources =
              SelectSeq(KnownSources,
                        LAMBDA s : \E i \in 1..Len(fetchPromises) :
                                      /\ fetchPromises[i].src = s
                                      /\ fetchPromises[i].value # <<>>)

\* C6: no response while a fetch is pending; one fetch was started for each
\* requested source; result.sources holds exactly the sources whose fetch
\* returned an item.
ResponseAfterAllFetches ==
    TrendsDone =>
        /\ \A i \in 1..Len(fetchPromises) : fetchPromises[i].state # "pending"
        /\ {fetchPromises[i].src : i \in 1..Len(fetchPromises)}
              = Range(requestedSources)
        /\ Range(response.sources)
              = {fetchPromises[i].src :
                    i \in {k \in 1..Len(fetchPromises) : fetchPromises[k].value # <<>>}}

\* C6 witness: three fetches, of which one returned items, one nothing and
\* one failed.
MixedOutcomesAnswered ==
    /\ TrendsDone
    /\ Len(fetchPromises) = Len(KnownSources)
    /\ \E i, j, k \in 1..Len(fetchPromises) :
          /\ fetchPromises[i].value # <<>>
          /\ fetchPromises[j].value = <<>> /\ fetchPromises[j].http = "ok"
          /\ fetchPromises[k].http = "threw"

\* The stories among the entries of trends.<source>.
StoriesIn(t) ==
    IF t = None THEN 0
    ELSE Cardinality({k \in 1..Len(t[1]) : t[1][k] = Story})

\* C7 as claimed: in scout and deep-scout a source whose fetch fails gives an
\* empty sequence, and adds nothing to deep-scout's totalItems.
ScoutFailureIsEmpty ==
    ScoutDone =>
        /\ \A s \in ScoutTags :
              scoutFetch[s].http \in {"notok", "threw"} =>
                  output.trends[s] = Some(<<>>)
        /\ output.totalItems # None =>
              output.totalItems[1] = StoriesIn(output.trends.hackernews)
                                       + StoriesIn(output.trends.reddit)

\* What does hold of C7: the routes never fail, and every requested source
\* is fetched and has its entry in trends.
ScoutAlwaysAnswers ==
    /\ op \in {"scout", "deep-scout"} => status \in {"running", "succeeded"}
    /\ ScoutDone =>
          \A s \in ScoutTags :
              Includes(sources, s) =>
                  scoutFetch[s].state = "settled" /\ output.trends[s] # None

\* C8 as claimed: a request with an unknown source tag or a limit outside
\* 1..50 starts no fetch and gets no success result.
MalformedInputRejected ==
    /\ op = "get-trends" /\ status # "rejected" =>
          SourcesOk(requestedSources) /\ LimitOk(limit)
    /\ op = "get-trends" /\ status = "rejected" => fetchPromises = <<>>
    /\ op \in {"scout", "deep-scout"} =>
          \/ ScoutInputSchema(sources)
          \/ /\ status # "succeeded"
             /\ \A s \in ScoutTags : scoutFetch[s].state = "notstarted"

\* C9 as claimed: one fetch is started for each requested source, and none
\* waits for another's to complete: while a fetch is in flight or done, no
\* other requested source is still to be started.
FetchesStartTogether ==
    /\ op = "get-trends" =>
          {fetchPromises[i].src : i \in 1..Len(fetchPromises)}
              = Range(requestedSources)
    /\ op \in {"scout", "deep-scout"} =>
          \A s, t \in ScoutTags :
              Includes(sources, s) /\ Includes(sources, t) =>
                  ~(scoutFetch[s].state \in {"pending", "settled"}
                      /\ scoutFetch[t].state = "notstarted")

\* C10 as claimed: trends holds exactly min(limit, N) of the N fetched items,
\* none twice, and no item left out outscores one that is in.
ExactlyMinLimitTopScored ==
    TrendsDone =>
        /\ IF Len(Fetched) <= limit.whole
           THEN Len(response.trends) = Len(Fetched)
           ELSE ~limit.frac /\ Len(response.trends) = limit.whole
        /\ NoRepeats(response.trends)
        /\ Range(response.trends) \subseteq Range(Fetched)
        /\ \A x \in Range(Fetched) \ Range(response.trends) :
              \A y \in Range(response.trends) : ScoreOrZero(x) <= ScoreOrZero(y)

\* What does hold of C10: with the limit's whole part for the limit, trends is
\* exactly the min(limit, N) highest-scored fetched items.
WholeLimitTopScored ==
    TrendsDone =>
        /\ Len(response.trends) = Min(limit.whole, Len(Fetched))
        /\ NoRepeats(response.trends)
        /\ Range(response.trends) \subseteq Range(Fetched)
        /\ \A x \in Range(Fetched) \ Range(response.trends) :
              \A y \in Range(response.trends) : ScoreOrZero(x) <= ScoreOrZero(y)
====
